---- MODULE Spec2Model ----
(***************************************************************************)
(* Verification model of the translation bot's two stateful services:      *)
(*   - services/rate_limiter.py : RateLimiter (per-user sliding window)     *)
(*   - services/audio_service.py: temp-file cleanup on a 2-thread executor  *)
(* and of the handlers (handlers.py) that call into them.                   *)
(*                                                                          *)
(* Time is counted in ticks; one second is TicksPerSecond ticks, so that    *)
(* time.time() has a fractional part and int() is a real truncation.        *)
(***************************************************************************)
EXTENDS Integers, Sequences, FiniteSets, TLC

VARIABLES
    now,             \* time.time(), in ticks
    max_requests,    \* RateLimiter.max_requests
    window_seconds,  \* RateLimiter.window_seconds
    requests,        \* RateLimiter._requests : user -> list of timestamps
    ret,             \* outcome of the last RateLimiter call
    log,             \* history: every timestamp record(user) ever appended
    full             \* history, per user: the oldest timestamp of a window
                     \* that held exactly max_requests live timestamps after
                     \* the last record (else NoTime), and whether a check
                     \* has been denied since

VARIABLES
    fs,                     \* TEMP_DIR: path -> st_mtime of the regular file, or NoFile
    subdir,                 \* TEMP_DIR holds an entry that is a directory
    temp_dir,               \* TEMP_DIR itself: "present", "absent" or "blocked"
    locked,                 \* paths whose removal the OS refuses (PermissionError)
    queue,                  \* _executor: work items submitted and not yet taken
    workers,                \* _executor: what each of its threads is running
    processed_files_count,  \* audio_service._processed_files_count
    cleanup_after,          \* config.TEMP_CLEANUP_AFTER_FILES
    task_exception,         \* a work item ended by an exception it did not catch
    hist                    \* history: calls of tick and sweeps submitted so far

VARIABLES
    procs,                  \* the requests being handled: kind, user, position
    peak                    \* history, per user: the most requests of that user
                            \* that were between check and record at once

rlVars == <<max_requests, window_seconds, requests, ret, log, full>>
fsVars == <<fs, subdir, temp_dir, locked, queue, workers, processed_files_count,
            cleanup_after, task_exception, hist>>
hVars == <<procs, peak>>
vars == <<now, rlVars, fsVars, hVars>>

----------------------------------------------------------------------------
(* Bounds of the model *)

TicksPerSecond == 2
MaxTimeSeconds == 95
MaxN == 2
MaxRecords == 3

MaxCleanupAfter == 3
MaxTicks == 6
MaxInFlight == 2

MaxProcs == 2

(* Program constants *)

SecondsPerMinute == 60
RetentionSeconds == 300
MaxWorkers == 2

Users == {"u1", "u2"}
NoTime == 0 - 1

MaxTime == MaxTimeSeconds * TicksPerSecond

\* The clock advances by 30 s or by 30 s and one tick.
TimeSteps == {30 * TicksPerSecond, 30 * TicksPerSecond + 1}

\* Configurations of RateLimiter(max_requests, window_seconds).
MaxRequestsChoices == 0..MaxN
WindowChoices == {60, 90}

----------------------------------------------------------------------------
(* Pure helpers *)

Max2(a, b) == IF a >= b THEN a ELSE b

RECURSIVE SeqMin(_)
\* min(list): defined for non-empty lists only.
SeqMin(s) ==
    IF Len(s) = 1 THEN s[1]
    ELSE LET m == SeqMin(Tail(s)) IN IF s[1] <= m THEN s[1] ELSE m

\* int(x) of a float x given in ticks: whole seconds, truncated toward zero.
IntSeconds(x) ==
    IF x >= 0 THEN x \div TicksPerSecond ELSE -((-x) \div TicksPerSecond)

\* Python's a // b for b > 0 (floor division).
FloorDiv(a, b) == a \div b

WindowTicks == window_seconds * TicksPerSecond

\* Clock values a later time.time() call can return.
LaterReads(t) == {t} \cup {t + d : d \in {e \in TimeSteps : t + e <= MaxTime}}

----------------------------------------------------------------------------
(* RateLimiter *)

\* Mutant of CleanupOldRequests: the window length is hard-coded to one minute.
CleanupFixedWindow(s, t) ==
    LET cutoff == t - SecondsPerMinute * TicksPerSecond
    IN  SelectSeq(s, LAMBDA ts : ts > cutoff)

\* Mutant of CleanupOldRequests: a timestamp exactly window_seconds old is kept.
CleanupKeepsBoundary(s, t) ==
    LET cutoff == t - WindowTicks
    IN  SelectSeq(s, LAMBDA ts : ts >= cutoff)

\* Mutant of CleanupOldRequests: the list written back was read before the
\* latest append, whose timestamp is lost.
CleanupStaleRead(s, t) ==
    LET cutoff == t - WindowTicks
        stale == IF s = <<>> THEN s ELSE SubSeq(s, 1, Len(s) - 1)
    IN  SelectSeq(stale, LAMBDA ts : ts > cutoff)

\* _cleanup_old_requests: the list kept for a user when the clock reads t.
CleanupOldRequests(s, t) ==
    LET cutoff == t - WindowTicks
    IN  SelectSeq(s, LAMBDA ts : ts > cutoff)

\* Mutant of MinutesUntilReset: the lower clamp max(1, .) is missing.
MinutesUnclamped(oldest, t) ==
    LET seconds_until_reset == IntSeconds((oldest + WindowTicks) - t)
    IN  FloorDiv(seconds_until_reset, SecondsPerMinute)

\* minutes_until_reset, from the oldest kept timestamp and the second clock read.
MinutesUntilReset(oldest, t) ==
    LET seconds_until_reset == IntSeconds((oldest + WindowTicks) - t)
    IN  Max2(1, FloorDiv(seconds_until_reset, SecondsPerMinute))

\* Mutant of LimitReached: the comparison is strict.
LimitReachedStrict(kept) == Len(kept) > max_requests

\* The limit test of check.
LimitReached(kept) == Len(kept) >= max_requests

\* History: is this check a repeat, at the same instant, of the previous call?
SameInstantRepeat(u, t1, t2) ==
    /\ ret.op = "check" /\ ret.user = u
    /\ ret.t1 = t1 /\ ret.t2 = t1 /\ t2 = t1

\* check's outcome: a returned tuple, or the exception min([]) raises.
CheckOutcome(u, t1, t2, kept) ==
    IF LimitReached(kept)
    THEN IF kept = <<>>
         THEN [op |-> "check", user |-> u, t1 |-> t1, t2 |-> t2,
               kind |-> "raise", allowed |-> FALSE, minutes |-> 0,
               again |-> SameInstantRepeat(u, t1, t2)]
         ELSE [op |-> "check", user |-> u, t1 |-> t1, t2 |-> t2,
               kind |-> "value", allowed |-> FALSE,
               minutes |-> MinutesUntilReset(SeqMin(kept), t2),
               again |-> SameInstantRepeat(u, t1, t2)]
    ELSE [op |-> "check", user |-> u, t1 |-> t1, t2 |-> t1,
          kind |-> "value", allowed |-> TRUE, minutes |-> 0,
          again |-> SameInstantRepeat(u, t1, t2)]

\* Mutant of SetWindow: one list is shared by all users.
SetWindowShared(u, s) == [v \in Users |-> s]

\* self._requests[user_id] = s: the dictionary with the list of u replaced.
SetWindow(u, s) == [requests EXCEPT ![u] = s]

\* Number of timestamps of s less than window_seconds old at time t.
Live(s, t) == Cardinality({i \in 1..Len(s) : s[i] > t - WindowTicks})

\* check(user_id): purge, then decide. The clock is read once by the purge
\* and once more when the limit is reached.
Check(u) ==
    LET t1 == now
        kept == CleanupOldRequests(requests[u], t1)
    IN  \E t2 \in (IF LimitReached(kept) /\ kept # <<>> THEN LaterReads(t1) ELSE {t1}) :
            /\ requests' = SetWindow(u, kept)
            /\ ret' = CheckOutcome(u, t1, t2, kept)
            /\ now' = t2
            /\ full' = [full EXCEPT ![u].denied =
                           @ \/ (full[u].oldest # NoTime /\ LimitReached(kept))]
            /\ UNCHANGED <<max_requests, window_seconds, log, fsVars, hVars>>

\* The history value `full` after record(u) appended at time t.
FullAfterRecord(u, t) ==
    LET s == Append(log[u], t)
        live == SelectSeq(s, LAMBDA ts : ts > t - WindowTicks)
    IN  [oldest |-> IF max_requests >= 1 /\ Len(live) = max_requests
                    THEN SeqMin(live) ELSE NoTime,
         denied |-> FALSE]

\* What a call of record(u) at time t leaves as the last outcome.
RecordOutcome(u, t) ==
    [op |-> "record", user |-> u, t1 |-> t, t2 |-> t,
     kind |-> "value", allowed |-> FALSE, minutes |-> 0, again |-> FALSE]

\* record(user_id): append the current time, unconditionally.
Record(u) ==
    /\ Len(log["u1"]) + Len(log["u2"]) < MaxRecords
    /\ requests' = SetWindow(u, Append(requests[u], now))
    /\ log' = [log EXCEPT ![u] = Append(@, now)]
    /\ full' = [full EXCEPT ![u] = FullAfterRecord(u, now)]
    /\ ret' = RecordOutcome(u, now)
    /\ UNCHANGED <<now, max_requests, window_seconds, fsVars, hVars>>

\* The clock moves on between calls.
Advance ==
    /\ \E d \in TimeSteps :
          /\ now + d <= MaxTime
          /\ now' = now + d
    /\ UNCHANGED <<rlVars, fsVars, hVars>>

----------------------------------------------------------------------------
(* File lifecycle manager (audio_service.py) *)

\* The file ids the transport delivers with voice messages.
FileIds == {"a", "b"}

\* handle_voice: os.path.join(TEMP_DIR, f"{file_id}.oga")
OgaPathOf(file_id) == IF file_id = "a" THEN "a.oga" ELSE "b.oga"

\* compress_audio: input_path.replace(".oga", "_compressed.ogg")
CompressedPathOf(input_path) ==
    IF input_path = "a.oga" THEN "a_compressed.ogg"
    ELSE IF input_path = "b.oga" THEN "b_compressed.ogg"
    ELSE input_path

\* The paths of one voice message, the one with file id "a".
Paths == {OgaPathOf("a"), CompressedPathOf(OgaPathOf("a"))}

\* The paths of all voice messages.
AllPaths == {OgaPathOf(id) : id \in FileIds}
                \cup {CompressedPathOf(OgaPathOf(id)) : id \in FileIds}
SubDir == "sub"
None == "None"
NoFile == 0 - 1

Workers == 1..MaxWorkers
Idle == [task |-> "idle"]

\* The instants at which the file manager's clock is observed: 0 s, 300 s
\* (a file written at 0 s is exactly as old as the retention) and 301 s.
FsClock == {0, RetentionSeconds * TicksPerSecond,
            (RetentionSeconds + 1) * TicksPerSecond}

CleanupAfterChoices == 1..MaxCleanupAfter

\* Entries Path(TEMP_DIR).glob("*") lists.
Glob == {p \in AllPaths : fs[p] # NoFile} \cup (IF subdir THEN {SubDir} ELSE {})

\* Path.is_file(): false for a directory and for a path that does not exist.
IsFile(p) == p \in AllPaths /\ fs[p] # NoFile

\* os.path.exists(file_path)
Exists(p) == IF p = SubDir THEN subdir ELSE fs[p] # NoFile

\* Mutant of OlderThanCutoff: a file exactly as old as the retention is removed.
NotNewerThanCutoff(file_mtime, cutoff_time) == file_mtime <= cutoff_time

\* The age test of the sweep.
OlderThanCutoff(file_mtime, cutoff_time) == file_mtime < cutoff_time

\* What os.remove / Path.unlink does to p: the error it raises, or "ok".
RemoveError(p) ==
    IF p = SubDir THEN "IsADirectoryError"
    ELSE IF fs[p] = NoFile THEN "FileNotFoundError"
    ELSE IF p \in locked THEN "PermissionError"
    ELSE "ok"

\* Mutant of CaughtByDelete: only PermissionError is handled.
CaughtPermissionOnly(exc) == exc = "PermissionError"

\* `except Exception` of _sync_delete_file.
CaughtByDelete(exc) == exc \in {"FileNotFoundError", "PermissionError", "IsADirectoryError"}

\* Mutant of CaughtBySweep: only a file that vanished is handled.
CaughtNotFoundOnly(exc) == exc = "FileNotFoundError"

\* `except Exception` of _sync_cleanup_temp_files.
CaughtBySweep(exc) == exc \in {"FileNotFoundError", "PermissionError", "IsADirectoryError"}

\* Work items submitted and not yet finished.
InFlight == Len(queue) + Cardinality({w \in Workers : workers[w] # Idle})

\* _executor.submit(fn, *args) for each item of a sequence of work items.
Submit(items) == queue' = queue \o items

\* Mutant of ThresholdReached: the sweep fires one call late.
ThresholdReachedLate(count) == ~(count <= cleanup_after)

\* cleanup_temp_files_async: the incremented counter has reached the threshold.
ThresholdReached(count) == ~(count < cleanup_after)

\* Mutant of CounterAfter: the increment is not stored.
CounterNotIncremented(count) == IF ThresholdReached(count) THEN 0 ELSE count - 1

\* cleanup_temp_files_async: the counter after a call that incremented it to count.
CounterAfter(count) == IF ThresholdReached(count) THEN 0 ELSE count

\* Mutant of SweepItems: the threshold submits the sweep twice.
SweepItemsTwice(count) ==
    IF ThresholdReached(count) THEN <<[op |-> "sweep"], [op |-> "sweep"]>> ELSE <<>>

\* cleanup_temp_files_async: the work it submits, a sweep on the threshold.
SweepItems(count) == IF ThresholdReached(count) THEN <<[op |-> "sweep"]>> ELSE <<>>

\* cleanup_temp_files(force=False) -> cleanup_temp_files_async(): count the
\* call, and on the threshold reset the counter and submit a sweep.
CleanupTempFilesAsync ==
    /\ LET count == processed_files_count + 1
       IN  /\ processed_files_count' = CounterAfter(count)
           /\ Submit(SweepItems(count))
    /\ UNCHANGED <<now, rlVars, hVars, fs, subdir, temp_dir, locked, workers, cleanup_after,
                   task_exception>>

\* A request calls cleanup_temp_files().
Tick ==
    /\ ThresholdReached(processed_files_count + 1) => InFlight < MaxInFlight
    /\ CleanupTempFilesAsync
    /\ UNCHANGED hist

\* A request calls cleanup_temp_files(); the call and the sweeps it submits
\* are counted.
CountedTick ==
    /\ hist.ticks < MaxTicks
    /\ CleanupTempFilesAsync
    /\ hist' = [ticks |-> hist.ticks + 1,
                sweeps |-> hist.sweeps + (Len(queue') - Len(queue))]

\* Mutant of DeleteItems: only the first argument is submitted.
DeleteItemsFirstOnly(paths) ==
    LET truthy == SelectSeq(paths, LAMBDA x : x # None)
    IN  [i \in 1..(IF truthy = <<>> THEN 0 ELSE 1) |->
            [op |-> "delete", path |-> truthy[i]]]

\* The work items delete_files submits for its arguments: one per truthy path.
DeleteItems(paths) ==
    LET truthy == SelectSeq(paths, LAMBDA x : x # None)
    IN  [i \in 1..Len(truthy) |-> [op |-> "delete", path |-> truthy[i]]]

\* delete_file(file_path)
DeleteFile(p) ==
    /\ InFlight < MaxInFlight
    /\ Submit(<<[op |-> "delete", path |-> p]>>)
    /\ UNCHANGED <<now, rlVars, hVars, fs, subdir, temp_dir, locked, workers, processed_files_count,
                   cleanup_after, task_exception, hist>>

\* delete_files(*file_paths), called with one or two arguments.
DeleteFiles(paths) ==
    /\ InFlight + Len(DeleteItems(paths)) <= MaxInFlight
    /\ Submit(DeleteItems(paths))
    /\ UNCHANGED <<now, rlVars, hVars, fs, subdir, temp_dir, locked, workers, processed_files_count,
                   cleanup_after, task_exception, hist>>

\* The argument lists the handlers pass to delete_files.
DeleteArgs ==
    {<<p>> : p \in Paths} \cup {<<p, q>> : p \in Paths, q \in Paths \cup {None}}

\* Mutant of WorkerTake: the thread takes the newest work item.
WorkerTakeNewest(w) ==
    /\ workers[w] = Idle
    /\ \A x \in Workers : x < w => workers[x] # Idle
    /\ queue # <<>>
    /\ queue' = SubSeq(queue, 1, Len(queue) - 1)
    /\ workers' = [workers EXCEPT ![w] =
          IF queue[Len(queue)].op = "delete"
          THEN [task |-> "delete", pc |-> "exists", path |-> queue[Len(queue)].path,
                outcome |-> "ok"]
          ELSE [task |-> "sweep", pc |-> "begin", cutoff |-> 0, todo |-> {},
                cur |-> None, count |-> 0, error |-> "ok",
                expired |-> {}, removed |-> {}]]
    /\ UNCHANGED <<now, rlVars, hVars, fs, subdir, temp_dir, locked, processed_files_count,
                   cleanup_after, task_exception, hist>>

\* A thread of the pool takes the oldest work item.
WorkerTake(w) ==
    /\ workers[w] = Idle
    /\ \A x \in Workers : x < w => workers[x] # Idle   \* idle threads are alike
    /\ queue # <<>>
    /\ queue' = Tail(queue)
    /\ workers' = [workers EXCEPT ![w] =
          IF Head(queue).op = "delete"
          THEN [task |-> "delete", pc |-> "exists", path |-> Head(queue).path,
                outcome |-> "ok"]
          ELSE [task |-> "sweep", pc |-> "begin", cutoff |-> 0, todo |-> {},
                cur |-> None, count |-> 0, error |-> "ok",
                expired |-> {}, removed |-> {}]]
    /\ UNCHANGED <<now, rlVars, hVars, fs, subdir, temp_dir, locked, processed_files_count,
                   cleanup_after, task_exception, hist>>

\* _sync_delete_file: `if os.path.exists(file_path)`.
DeleteExists(w) ==
    /\ workers[w].task = "delete" /\ workers[w].pc = "exists"
    /\ workers' = [workers EXCEPT ![w] =
          IF Exists(@.path)
          THEN [@ EXCEPT !.pc = "remove"]
          ELSE [@ EXCEPT !.pc = "return", !.outcome = "absent"]]
    /\ UNCHANGED <<now, rlVars, hVars, fs, subdir, temp_dir, locked, queue, processed_files_count,
                   cleanup_after, task_exception, hist>>

\* _sync_delete_file: `os.remove(file_path)` and the except clause around it.
DeleteRemove(w) ==
    /\ workers[w].task = "delete" /\ workers[w].pc = "remove"
    /\ LET p == workers[w].path
           exc == RemoveError(p)
       IN  /\ fs' = IF exc = "ok" THEN [fs EXCEPT ![p] = NoFile] ELSE fs
           /\ workers' = [workers EXCEPT ![w] =
                             [@ EXCEPT !.pc = "return", !.outcome = exc]]
           /\ task_exception' = (task_exception \/ (exc # "ok" /\ ~CaughtByDelete(exc)))
    /\ UNCHANGED <<now, rlVars, hVars, subdir, temp_dir, locked, queue, processed_files_count,
                   cleanup_after, hist>>

\* _sync_delete_file returns: the thread is free again.
DeleteReturn(w) ==
    /\ workers[w].task = "delete" /\ workers[w].pc = "return"
    /\ workers' = [workers EXCEPT ![w] = Idle]
    /\ UNCHANGED <<now, rlVars, hVars, fs, subdir, temp_dir, locked, queue, processed_files_count,
                   cleanup_after, task_exception, hist>>

\* _sync_cleanup_temp_files: cutoff_time, and the directory listing of glob.
SweepBegin(w) ==
    /\ workers[w].task = "sweep" /\ workers[w].pc = "begin"
    /\ LET cutoff_time == now - RetentionSeconds * TicksPerSecond
       IN  workers' = [workers EXCEPT ![w] =
              [@ EXCEPT !.pc = "next", !.cutoff = cutoff_time, !.todo = Glob,
                        !.expired = {p \in AllPaths : IsFile(p) /\ fs[p] < cutoff_time}]]
    /\ UNCHANGED <<now, rlVars, hVars, fs, subdir, temp_dir, locked, queue, processed_files_count,
                   cleanup_after, task_exception, hist>>

\* _sync_cleanup_temp_files: the next entry of the listing and its is_file()
\* test; the loop ends once the listing is exhausted.
SweepNext(w) ==
    /\ workers[w].task = "sweep" /\ workers[w].pc = "next"
    /\ IF workers[w].todo = {}
       THEN workers' = [workers EXCEPT ![w].pc = "return"]
       ELSE \E p \in workers[w].todo :
               workers' = [workers EXCEPT ![w] =
                  [@ EXCEPT !.todo = @ \ {p},
                            !.cur = p,
                            !.pc = IF IsFile(p) THEN "stat" ELSE "next"]]
    /\ UNCHANGED <<now, rlVars, hVars, fs, subdir, temp_dir, locked, queue, processed_files_count,
                   cleanup_after, task_exception, hist>>

\* _sync_cleanup_temp_files: `file_path.stat().st_mtime` and the age test. An
\* exception leaves the loop: it is caught around the whole loop.
SweepStat(w) ==
    /\ workers[w].task = "sweep" /\ workers[w].pc = "stat"
    /\ LET wk == workers[w]
           p == wk.cur
       IN  IF fs[p] = NoFile
           THEN /\ workers' = [workers EXCEPT ![w] =
                      [@ EXCEPT !.pc = "return", !.error = "FileNotFoundError"]]
                /\ task_exception' =
                      (task_exception \/ ~CaughtBySweep("FileNotFoundError"))
           ELSE /\ workers' = [workers EXCEPT ![w].pc =
                                  IF OlderThanCutoff(fs[p], wk.cutoff)
                                  THEN "unlink" ELSE "next"]
                /\ UNCHANGED task_exception
    /\ UNCHANGED <<now, rlVars, hVars, fs, subdir, temp_dir, locked, queue, processed_files_count,
                   cleanup_after, hist>>

\* _sync_cleanup_temp_files: `file_path.unlink()` and `deleted_count += 1`.
SweepUnlink(w) ==
    /\ workers[w].task = "sweep" /\ workers[w].pc = "unlink"
    /\ LET wk == workers[w]
           p == wk.cur
           exc == RemoveError(p)
       IN  IF exc = "ok"
           THEN /\ fs' = [fs EXCEPT ![p] = NoFile]
                /\ workers' = [workers EXCEPT ![w] =
                      [wk EXCEPT !.pc = "next", !.count = @ + 1,
                                 !.removed = @ \cup {p}]]
                /\ UNCHANGED task_exception
           ELSE /\ workers' = [workers EXCEPT ![w] =
                      [@ EXCEPT !.pc = "return", !.error = exc]]
                /\ task_exception' = (task_exception \/ ~CaughtBySweep(exc))
                /\ UNCHANGED fs
    /\ UNCHANGED <<now, rlVars, hVars, subdir, temp_dir, locked, queue, processed_files_count,
                   cleanup_after, hist>>

\* _sync_cleanup_temp_files: `return deleted_count`; the thread is free again.
SweepReturn(w) ==
    /\ workers[w].task = "sweep" /\ workers[w].pc = "return"
    /\ workers' = [workers EXCEPT ![w] = Idle]
    /\ UNCHANGED <<now, rlVars, hVars, fs, subdir, temp_dir, locked, queue, processed_files_count,
                   cleanup_after, task_exception, hist>>

\* A request writes a file of TEMP_DIR (a download, or the export of the
\* compressed audio): the file exists afterwards, modified now.
WriteFile(p) ==
    /\ fs[p] # now
    /\ fs' = [fs EXCEPT ![p] = now]
    /\ UNCHANGED <<now, rlVars, hVars, subdir, temp_dir, locked, queue, workers, processed_files_count,
                   cleanup_after, task_exception, hist>>

\* The OS starts or stops refusing the removal of a file (a handle held open).
SetLocked(p) ==
    /\ locked' = IF p \in locked THEN locked \ {p} ELSE locked \cup {p}
    /\ UNCHANGED <<now, rlVars, hVars, fs, subdir, temp_dir, queue, workers, processed_files_count,
                   cleanup_after, task_exception, hist>>

\* TEMP_DIR is removed with all it holds; it can be created again ("absent")
\* or not ("blocked": its name is taken by a file, or its parent is read-only).
SetTempDir(state) ==
    /\ state \in {"absent", "blocked"} /\ state # temp_dir
    /\ temp_dir' = state
    /\ fs' = [p \in AllPaths |-> NoFile]
    /\ subdir' = FALSE
    /\ UNCHANGED <<now, rlVars, hVars, locked, queue, workers, processed_files_count,
                   cleanup_after, task_exception, hist>>

\* The clock moves on.
AdvanceFs ==
    /\ \E t \in FsClock :
          /\ t > now
          /\ now' = t
    /\ UNCHANGED <<rlVars, fsVars, hVars>>

----------------------------------------------------------------------------
(* Handlers (handlers.py): cmd_translate_text and handle_voice *)

Procs == 1..MaxProcs

\* The paths handle_voice derives from the file id of the voice message.
\* A request as its handler starts it. Besides the handler's position and its
\* compressed_path, three history fields: how the validations of the request
\* ended, how often it has called record and cleanup_temp_files, and whether
\* an ensure_temp_dir of the request has raised.
Request(kind, u, pc, validation, recorded) ==
    [kind |-> kind, user |-> u, pc |-> pc, oga_path |-> None,
     compressed_path |-> None, validation |-> validation, recorded |-> recorded, ticked |-> 0,
     workspace |-> "ok"]

NoRequest == Request("none", "u1", "idle", "none", 0)

\* Mutant of EnsureTempDirRaises: the error of os.makedirs is swallowed.
EnsureTempDirSwallows(state) == FALSE

\* ensure_temp_dir: os.makedirs(TEMP_DIR, exist_ok=True) raises, and nothing
\* catches it, when the directory cannot be created.
EnsureTempDirRaises(state) == state = "blocked"

\* TEMP_DIR after os.makedirs(TEMP_DIR, exist_ok=True).
MakeDirs(state) == IF state = "blocked" THEN state ELSE "present"

\* Mutant of Admitted: the handler goes on whatever check returned.
AdmittedAlways(outcome) == outcome.kind = "value"

\* `allowed, minutes = rate_limiter.check(user_id)` did not raise, and
\* `if not allowed` is false.
Admitted(outcome) == outcome.kind = "value" /\ outcome.allowed

\* Requests of user u that passed check and have not yet reached the record
\* of handle_voice or left the handler.
Pending(u) ==
    Cardinality({p \in Procs : procs[p].kind = "voice" /\ procs[p].user = u
                                /\ procs[p].pc \in {"download", "downloaded"}})

\* History: one more request of u has passed check.
PeakAfterAdmission(u) == [peak EXCEPT ![u] = Max2(@, Pending(u) + 1)]

\* The event loop runs one handler at a time: no handler takes a step while
\* another is between the end of its download and its next await.
EventLoopFree == \A q \in Procs : procs[q].pc # "downloaded"

\* The next request to arrive is handled by the first free slot.
Arrives(p) ==
    /\ EventLoopFree
    /\ procs[p].pc = "idle"
    /\ \A q \in Procs : q < p => procs[q].pc # "idle"

\* cmd_translate_text up to its first await: check, the text test and record
\* run with no await in between.
TextCheck(p, u) ==
    /\ Arrives(p)
    /\ LET kept == CleanupOldRequests(requests[u], now)
           outcome == CheckOutcome(u, now, now, kept)
           denied == [full EXCEPT ![u].denied =
                         @ \/ (full[u].oldest # NoTime /\ LimitReached(kept))]
       IN  IF outcome.kind = "raise"
           THEN /\ requests' = SetWindow(u, kept)
                /\ ret' = outcome
                /\ full' = denied
                /\ procs' = [procs EXCEPT ![p] = Request("text", u, "done", "raised", 0)]
                /\ UNCHANGED <<log, peak>>
           ELSE IF ~Admitted(outcome)
           THEN /\ requests' = SetWindow(u, kept)
                /\ ret' = outcome
                /\ full' = denied
                /\ procs' = [procs EXCEPT ![p] = Request("text", u, "answer", "denied", 0)]
                /\ UNCHANGED <<log, peak>>
           ELSE \E has_text \in BOOLEAN :
                   /\ procs' = [procs EXCEPT ![p] =
                         IF has_text THEN Request("text", u, "answer", "passed", 1)
                         ELSE Request("text", u, "answer", "empty", 0)]
                   /\ IF has_text
                      THEN /\ requests' = SetWindow(u, Append(kept, now))
                           /\ log' = [log EXCEPT ![u] = Append(@, now)]
                           /\ full' = [full EXCEPT ![u] = FullAfterRecord(u, now)]
                           /\ ret' = RecordOutcome(u, now)
                           /\ peak' = PeakAfterAdmission(u)
                      ELSE /\ requests' = SetWindow(u, kept)
                           /\ ret' = outcome
                           /\ full' = denied
                           /\ UNCHANGED <<log, peak>>
    /\ UNCHANGED <<now, max_requests, window_seconds, fsVars>>

\* handle_voice up to its first await: check, ensure_temp_dir and the paths,
\* for a voice message with the given file id. ensure_temp_dir is called
\* outside the try: what it raises leaves the handler at once.
VoiceCheck(p, u, file_id) ==
    /\ Arrives(p)
    /\ LET kept == CleanupOldRequests(requests[u], now)
           outcome == CheckOutcome(u, now, now, kept)
       IN  /\ requests' = SetWindow(u, kept)
           /\ ret' = outcome
           /\ full' = [full EXCEPT ![u].denied =
                          @ \/ (full[u].oldest # NoTime /\ LimitReached(kept))]
           /\ procs' = [procs EXCEPT ![p] =
                 IF outcome.kind = "raise" THEN Request("voice", u, "done", "raised", 0)
                 ELSE IF Admitted(outcome)
                 THEN IF EnsureTempDirRaises(temp_dir)
                      THEN [Request("voice", u, "done", "pending", 0)
                               EXCEPT !.workspace = "failed"]
                      ELSE [Request("voice", u, "download", "pending", 0)
                               EXCEPT !.oga_path = OgaPathOf(file_id)]
                 ELSE Request("voice", u, "answer", "denied", 0)]
           /\ peak' = IF /\ outcome.kind # "raise" /\ Admitted(outcome)
                         /\ ~EnsureTempDirRaises(temp_dir)
                      THEN PeakAfterAdmission(u) ELSE peak
           /\ temp_dir' = IF outcome.kind # "raise" /\ Admitted(outcome)
                          THEN MakeDirs(temp_dir) ELSE temp_dir
    /\ UNCHANGED <<now, max_requests, window_seconds, log, fs, subdir, locked, queue,
                   workers, processed_files_count, cleanup_after, task_exception, hist>>

\* The awaits that end a handler without touching its state: the reply to a
\* denied request or to an empty /t, and the translation of a text and its reply.
Answer(p) ==
    /\ EventLoopFree
    /\ procs[p].pc = "answer"
    /\ procs' = [procs EXCEPT ![p].pc = "done"]
    /\ UNCHANGED <<now, rlVars, fsVars, peak>>

\* handle_voice from the processing message to the end of the download: the
\* awaits fail (with or without a partly written file), or the file is there.
VoiceDownload(p) ==
    /\ EventLoopFree
    /\ procs[p].kind = "voice" /\ procs[p].pc = "download"
    /\ LET downloaded == [fs EXCEPT ![procs[p].oga_path] = now]
       IN  \/ /\ procs' = [procs EXCEPT ![p].pc = "except",
                                        ![p].validation = "failed"]
              /\ fs' \in {fs} \cup (IF temp_dir = "present" THEN {downloaded} ELSE {})
           \/ /\ temp_dir = "present"
              /\ procs' = [procs EXCEPT ![p].pc = "downloaded"]
              /\ fs' = downloaded
    /\ UNCHANGED <<now, rlVars, subdir, temp_dir, locked, queue, workers,
                   processed_files_count, cleanup_after, task_exception, hist, peak>>

\* handle_voice from the end of the download to the first await of
\* translate_audio, a stretch without an await during which only the threads
\* of the pool run: check_audio_duration (a file that cannot be read has
\* duration 0.0 and is valid), record, compress_audio (whose ensure_temp_dir
\* is outside its try, so what it raises reaches the except clause of the
\* handler; otherwise it returns its input path when it fails, as it does on
\* a missing file), and the read of the audio by translate_audio, which
\* raises when the file is missing.
VoiceValidate(p) ==
    /\ procs[p].kind = "voice" /\ procs[p].pc = "downloaded"
    /\ LET u == procs[p].user
           oga_path == procs[p].oga_path
           output_path == CompressedPathOf(oga_path)
       IN  \/ /\ fs[oga_path] # NoFile
              /\ procs' = [procs EXCEPT ![p].pc = "too_long",
                                        ![p].validation = "too_long"]
              /\ UNCHANGED <<requests, log, full, ret, fs, temp_dir>>
           \/ /\ requests' = SetWindow(u, Append(requests[u], now))
              /\ log' = [log EXCEPT ![u] = Append(@, now)]
              /\ full' = [full EXCEPT ![u] = FullAfterRecord(u, now)]
              /\ ret' = RecordOutcome(u, now)
              /\ temp_dir' = MakeDirs(temp_dir)
              /\ IF EnsureTempDirRaises(temp_dir)
                 THEN /\ fs' = fs
                      /\ procs' = [procs EXCEPT
                            ![p].pc = "except",
                            ![p].validation = "passed",
                            ![p].recorded = @ + 1,
                            ![p].workspace = "failed"]
                 ELSE \E compressed \in {ok \in BOOLEAN : ok => fs[oga_path] # NoFile} :
                    LET compressed_path == IF compressed THEN output_path ELSE oga_path
                    IN  /\ fs' = IF compressed THEN [fs EXCEPT ![output_path] = now]
                                 ELSE fs
                        /\ procs' = [procs EXCEPT
                              ![p].pc = IF fs'[compressed_path] # NoFile
                                        THEN "translate" ELSE "except",
                              ![p].compressed_path = compressed_path,
                              ![p].validation = "passed",
                              ![p].recorded = @ + 1]
    /\ UNCHANGED <<now, max_requests, window_seconds, subdir, locked, queue, workers,
                   processed_files_count, cleanup_after, task_exception, hist, peak>>

\* The finally clause of handle_voice, after whatever else the step submits:
\* delete_files(oga_path, compressed_path) and cleanup_temp_files().
Finally(p, before) ==
    LET count == processed_files_count + 1
    IN  /\ Submit(before \o DeleteItems(<<procs[p].oga_path, procs[p].compressed_path>>)
                         \o SweepItems(count))
        /\ processed_files_count' = CounterAfter(count)
        /\ procs' = [procs EXCEPT ![p].pc = "done", ![p].ticked = @ + 1]

\* handle_voice, audio too long: the two replies, then delete_files(oga_path),
\* return, and the finally clause; a reply that fails leads to the except clause.
VoiceTooLong(p) ==
    /\ EventLoopFree
    /\ procs[p].kind = "voice" /\ procs[p].pc = "too_long"
    /\ \/ Finally(p, DeleteItems(<<procs[p].oga_path>>))
       \/ /\ procs' = [procs EXCEPT ![p].pc = "except"]
          /\ UNCHANGED <<queue, processed_files_count>>
    /\ UNCHANGED <<now, rlVars, fs, subdir, temp_dir, locked, workers, cleanup_after,
                   task_exception, hist, peak>>

\* handle_voice from the provider call on: the result is sent and the finally
\* clause runs, or an await raises and the except clause is entered.
VoiceTranslate(p) ==
    /\ EventLoopFree
    /\ procs[p].kind = "voice" /\ procs[p].pc = "translate"
    /\ \/ Finally(p, <<>>)
       \/ /\ procs' = [procs EXCEPT ![p].pc = "except"]
          /\ UNCHANGED <<queue, processed_files_count>>
    /\ UNCHANGED <<now, rlVars, fs, subdir, temp_dir, locked, workers, cleanup_after,
                   task_exception, hist, peak>>

\* handle_voice, except clause: the error reply (sent or not), then the
\* finally clause.
VoiceExcept(p) ==
    /\ EventLoopFree
    /\ procs[p].kind = "voice" /\ procs[p].pc = "except"
    /\ Finally(p, <<>>)
    /\ UNCHANGED <<now, rlVars, fs, subdir, temp_dir, locked, workers, cleanup_after,
                   task_exception, hist, peak>>

\* The instants at which requests are handled: 0 s, 30 s, and 60 s, when a
\* timestamp of 0 s is exactly window_seconds = 60 old.
RequestClock == {0, 30 * TicksPerSecond, 60 * TicksPerSecond}

\* The clock moves on while requests are handled.
AdvanceRequests ==
    /\ \E t \in RequestClock :
          /\ t > now
          /\ now' = t
    /\ UNCHANGED <<rlVars, fsVars, hVars>>

----------------------------------------------------------------------------
(* Initial states and specifications *)

NoCall == [op |-> "none", user |-> "u1", t1 |-> 0, t2 |-> 0,
           kind |-> "value", allowed |-> FALSE, minutes |-> 0, again |-> FALSE]

\* RateLimiter() as constructed, for one configuration.
InitLimiter ==
    /\ max_requests \in MaxRequestsChoices
    /\ window_seconds \in WindowChoices
    /\ requests = [u \in Users |-> <<>>]
    /\ ret = NoCall
    /\ log = [u \in Users |-> <<>>]
    /\ full = [u \in Users |-> [oldest |-> NoTime, denied |-> FALSE]]

\* audio_service as imported: counter 0, an executor with nothing to do, and
\* a TEMP_DIR that may hold files left by an earlier run.
InitFiles ==
    /\ fs \in {f \in [AllPaths -> {NoFile, 0}] : \A p \in AllPaths \ Paths : f[p] = NoFile}
    /\ subdir \in BOOLEAN
    /\ temp_dir = "present"
    /\ locked = {}
    /\ queue = <<>>
    /\ workers = [w \in Workers |-> Idle]
    /\ processed_files_count = 0
    /\ cleanup_after \in CleanupAfterChoices
    /\ task_exception = FALSE
    /\ hist = [ticks |-> 0, sweeps |-> 0]

\* No request has arrived yet.
InitRequests ==
    /\ procs = [p \in Procs |-> NoRequest]
    /\ peak = [u \in Users |-> 0]

\* The rate limiter alone, under every configuration.
Init ==
    /\ now = 0
    /\ InitLimiter
    /\ InitFiles /\ ~subdir /\ cleanup_after = 1 /\ fs = [p \in AllPaths |-> NoFile]
    /\ InitRequests

Next ==
    \/ \E u \in Users : Check(u)
    \/ \E u \in Users : Record(u)
    \/ Advance

Spec == Init /\ [][Next]_vars

\* The file lifecycle manager alone, called as the handlers call it.
InitFileManager ==
    /\ now = 0
    /\ InitLimiter /\ max_requests = 1 /\ window_seconds = 60
    /\ InitFiles /\ subdir /\ cleanup_after = 1 /\ fs = [p \in AllPaths |-> NoFile]
    /\ InitRequests

NextFileManager ==
    \/ Tick
    \/ \E p \in Paths : DeleteFile(p)
    \/ \E paths \in DeleteArgs : DeleteFiles(paths)
    \/ \E w \in Workers : WorkerTake(w)
    \/ \E w \in Workers : DeleteExists(w)
    \/ \E w \in Workers : DeleteRemove(w)
    \/ \E w \in Workers : DeleteReturn(w)
    \/ \E w \in Workers : SweepBegin(w)
    \/ \E w \in Workers : SweepNext(w)
    \/ \E w \in Workers : SweepStat(w)
    \/ \E w \in Workers : SweepUnlink(w)
    \/ \E w \in Workers : SweepReturn(w)
    \/ \E p \in Paths : WriteFile(p)
    \/ AdvanceFs

SpecFiles == InitFileManager /\ [][NextFileManager]_vars

\* The cleanup counter, under every threshold, in a directory that may hold
\* files left by an earlier run.
InitTicker ==
    /\ now = 0
    /\ InitLimiter /\ max_requests = 1 /\ window_seconds = 60
    /\ InitFiles
    /\ InitRequests

NextTicker ==
    \/ CountedTick
    \/ \E w \in Workers : WorkerTake(w)
    \/ \E w \in Workers : SweepBegin(w)
    \/ \E w \in Workers : SweepNext(w)
    \/ \E w \in Workers : SweepStat(w)
    \/ \E w \in Workers : SweepUnlink(w)
    \/ \E w \in Workers : SweepReturn(w)
    \/ AdvanceFs

SpecTicker == InitTicker /\ [][NextTicker]_vars

\* The next step of the work item thread w is running.
WorkerStep(w) ==
    \/ DeleteExists(w) \/ DeleteRemove(w) \/ DeleteReturn(w)
    \/ SweepBegin(w) \/ SweepNext(w) \/ SweepStat(w) \/ SweepUnlink(w)
    \/ SweepReturn(w)

\* The pool under calls of delete_file, delete_files and tick that never stop
\* coming, in a directory that holds a subdirectory and two files written at 0 s.
InitPool ==
    /\ now = 0
    /\ InitLimiter /\ max_requests = 1 /\ window_seconds = 60
    /\ InitFiles /\ subdir /\ cleanup_after = 1 /\ fs = [p \in AllPaths |-> IF p \in Paths THEN 0 ELSE NoFile]
    /\ InitRequests

NextPool ==
    \/ Tick
    \/ \E p \in Paths : DeleteFile(p)
    \/ \E paths \in DeleteArgs : DeleteFiles(paths)
    \/ \E w \in Workers : WorkerTake(w)
    \/ \E w \in Workers : DeleteExists(w)
    \/ \E w \in Workers : DeleteRemove(w)
    \/ \E w \in Workers : DeleteReturn(w)
    \/ \E w \in Workers : SweepBegin(w)
    \/ \E w \in Workers : SweepNext(w)
    \/ \E w \in Workers : SweepStat(w)
    \/ \E w \in Workers : SweepUnlink(w)
    \/ \E w \in Workers : SweepReturn(w)
    \/ AdvanceFs

\* The threads of the pool are scheduled fairly: a free thread takes waiting
\* work, and a thread that runs a work item takes its next step.
PoolFairness ==
    /\ WF_vars(\E w \in Workers : WorkerTake(w))
    /\ \A w \in Workers : WF_vars(WorkerStep(w))

SpecPoolFair == InitPool /\ [][NextPool]_vars /\ PoolFairness

\* The handlers and the rate limiter: requests of either kind arrive, overlap,
\* and finish in any order while the clock moves on. The work the handlers
\* submit to the pool stays queued: no thread of the pool touches the limiter.
InitHandlers ==
    /\ now = 0
    /\ InitLimiter /\ max_requests >= 1 /\ window_seconds = 60
    /\ InitFiles /\ ~subdir /\ cleanup_after = 2 /\ fs = [p \in AllPaths |-> NoFile]
    /\ InitRequests

\* The users are alike to the limiter: the first request is u1's.
ArrivingUsers == IF \A p \in Procs : procs[p].pc = "idle" THEN {"u1"} ELSE Users

NextHandlers ==
    \/ \E p \in Procs, u \in ArrivingUsers : TextCheck(p, u)
    \/ \E p \in Procs, u \in ArrivingUsers : VoiceCheck(p, u, "a")
    \/ \E p \in Procs : Answer(p)
    \/ \E p \in Procs : VoiceDownload(p)
    \/ \E p \in Procs : VoiceValidate(p)
    \/ \E p \in Procs : VoiceTooLong(p)
    \/ \E p \in Procs : VoiceTranslate(p)
    \/ \E p \in Procs : VoiceExcept(p)
    \/ AdvanceRequests

SpecHandlers == InitHandlers /\ [][NextHandlers]_vars

\* Voice requests of one user together with the pool: the messages carry any
\* file id, the requests overlap, and the threads of the pool run the
\* deletions and the sweeps the requests submit, a sweep after every second
\* request.
InitVoice ==
    /\ now = 0
    /\ InitLimiter /\ max_requests = 1 /\ window_seconds = 60
    /\ InitFiles /\ ~subdir /\ cleanup_after = 2 /\ fs = [p \in AllPaths |-> NoFile]
    /\ InitRequests

NextRequests ==
    \/ \E p \in Procs, id \in FileIds : VoiceCheck(p, "u1", id)
    \/ \E p \in Procs : Answer(p)
    \/ \E p \in Procs : VoiceDownload(p)
    \/ \E p \in Procs : VoiceValidate(p)
    \/ \E p \in Procs : VoiceTooLong(p)
    \/ \E p \in Procs : VoiceTranslate(p)
    \/ \E p \in Procs : VoiceExcept(p)
    \/ \E w \in Workers : WorkerTake(w)
    \/ \E w \in Workers : DeleteExists(w)
    \/ \E w \in Workers : DeleteRemove(w)
    \/ \E w \in Workers : DeleteReturn(w)
    \/ \E w \in Workers : SweepBegin(w)
    \/ \E w \in Workers : SweepNext(w)
    \/ \E w \in Workers : SweepStat(w)
    \/ \E w \in Workers : SweepUnlink(w)
    \/ \E w \in Workers : SweepReturn(w)
    \/ AdvanceFs

SpecRequests == InitVoice /\ [][NextRequests]_vars

\* Voice requests of one user and the deletions they submit, the threads of
\* the pool being scheduled fairly. The requests are too few to reach the
\* threshold of the sweep, and all carry the same file id.
InitCleanup ==
    /\ now = 0
    /\ InitLimiter /\ max_requests = 1 /\ window_seconds = 60
    /\ InitFiles /\ ~subdir /\ cleanup_after = MaxProcs + 1
    /\ fs = [p \in AllPaths |-> NoFile]
    /\ InitRequests

NextCleanup ==
    \/ \E p \in Procs : VoiceCheck(p, "u1", "a")
    \/ \E p \in Procs : Answer(p)
    \/ \E p \in Procs : VoiceDownload(p)
    \/ \E p \in Procs : VoiceValidate(p)
    \/ \E p \in Procs : VoiceTooLong(p)
    \/ \E p \in Procs : VoiceTranslate(p)
    \/ \E p \in Procs : VoiceExcept(p)
    \/ \E w \in Workers : WorkerTake(w)
    \/ \E w \in Workers : DeleteExists(w)
    \/ \E w \in Workers : DeleteRemove(w)
    \/ \E w \in Workers : DeleteReturn(w)

SpecCleanupFair == InitCleanup /\ [][NextCleanup]_vars /\ PoolFairness

\* Voice requests, one after another, whose cleanup meets files the OS refuses
\* to remove: every request triggers a sweep, and TEMP_DIR holds a compressed
\* file an earlier run left more than 300 s ago.
InitFaults ==
    /\ now = (RetentionSeconds + 1) * TicksPerSecond
    /\ InitLimiter /\ max_requests = 1 /\ window_seconds = 60
    /\ InitFiles /\ ~subdir /\ cleanup_after = 1
    /\ fs = [p \in AllPaths |->
                IF p = CompressedPathOf(OgaPathOf("a")) THEN 0 ELSE NoFile]
    /\ InitRequests

\* Every earlier request has left its handler.
NoneInFlight == \A q \in Procs : procs[q].pc \in {"idle", "done"}

NextFaults ==
    \/ \E p \in Procs : NoneInFlight /\ VoiceCheck(p, "u1", "a")
    \/ \E p \in Procs : Answer(p)
    \/ \E p \in Procs : VoiceDownload(p)
    \/ \E p \in Procs : VoiceValidate(p)
    \/ \E p \in Procs : VoiceTooLong(p)
    \/ \E p \in Procs : VoiceTranslate(p)
    \/ \E p \in Procs : VoiceExcept(p)
    \/ \E w \in Workers : WorkerTake(w)
    \/ \E w \in Workers : DeleteExists(w)
    \/ \E w \in Workers : DeleteRemove(w)
    \/ \E w \in Workers : DeleteReturn(w)
    \/ \E w \in Workers : SweepBegin(w)
    \/ \E w \in Workers : SweepNext(w)
    \/ \E w \in Workers : SweepStat(w)
    \/ \E w \in Workers : SweepUnlink(w)
    \/ \E w \in Workers : SweepReturn(w)
    \/ \E p \in Paths : SetLocked(p)

SpecFaults == InitFaults /\ [][NextFaults]_vars

\* Voice requests of one user while TEMP_DIR comes and goes.
InitWorkspace ==
    /\ now = 0
    /\ InitLimiter /\ max_requests = 1 /\ window_seconds = 60
    /\ InitFiles /\ ~subdir /\ cleanup_after = 2
    /\ fs = [p \in AllPaths |-> NoFile]
    /\ InitRequests

NextWorkspace ==
    \/ \E p \in Procs : VoiceCheck(p, "u1", "a")
    \/ \E p \in Procs : Answer(p)
    \/ \E p \in Procs : VoiceDownload(p)
    \/ \E p \in Procs : VoiceValidate(p)
    \/ \E p \in Procs : VoiceTooLong(p)
    \/ \E p \in Procs : VoiceTranslate(p)
    \/ \E p \in Procs : VoiceExcept(p)
    \/ \E state \in {"absent", "blocked"} : SetTempDir(state)

SpecWorkspace == InitWorkspace /\ [][NextWorkspace]_vars

\* The pool at 301 s, in a directory that holds two files written at 0 s,
\* while the OS refuses and allows removals: every tick triggers a sweep,
\* ticks never stop coming, and the threads of the pool are scheduled fairly.
InitRetry ==
    /\ now = (RetentionSeconds + 1) * TicksPerSecond
    /\ InitLimiter /\ max_requests = 1 /\ window_seconds = 60
    /\ InitFiles /\ ~subdir /\ cleanup_after = 1
    /\ fs = [p \in AllPaths |-> IF p \in Paths THEN 0 ELSE NoFile]
    /\ InitRequests

NextRetry ==
    \/ Tick
    \/ \E p \in Paths : DeleteFile(p)
    \/ \E w \in Workers : WorkerTake(w)
    \/ \E w \in Workers : DeleteExists(w)
    \/ \E w \in Workers : DeleteRemove(w)
    \/ \E w \in Workers : DeleteReturn(w)
    \/ \E w \in Workers : SweepBegin(w)
    \/ \E w \in Workers : SweepNext(w)
    \/ \E w \in Workers : SweepStat(w)
    \/ \E w \in Workers : SweepUnlink(w)
    \/ \E w \in Workers : SweepReturn(w)
    \/ \E p \in Paths : SetLocked(p)

SpecRetryFair ==
    InitRetry /\ [][NextRetry]_vars /\ PoolFairness /\ SF_vars(Tick)

----------------------------------------------------------------------------
(* Claims about RateLimiter, checked under Spec *)

Returned(r) == r.op = "check" /\ r.kind = "value"
Denied(r) == Returned(r) /\ ~r.allowed

\* Ticks left, at the second clock read of a denied check, until the oldest
\* timestamp of the purged window expires.
RemainingTicks == (SeqMin(requests[ret.user]) + WindowTicks) - ret.t2

\* Smallest k with k * b >= a, for b > 0.
CeilDiv(a, b) == -((-a) \div b)

\* C1: once a user's window holds max_requests timestamps that are all less
\* than window_seconds old, every check of that user is denied while the oldest
\* of them is less than window_seconds old, and, no record following, the check
\* made once that oldest one is window_seconds old or older is allowed.
C1_DeniedWhileWindowFull ==
    ret.op = "check" =>
        LET u == ret.user
            n == Live(log[u], ret.t1)
        IN  /\ (n >= 1 /\ n >= max_requests) => Denied(ret)
            /\ (full[u].oldest # NoTime /\ full[u].oldest > ret.t1 - WindowTicks)
                   => Denied(ret)
            /\ (full[u].oldest # NoTime /\ full[u].oldest <= ret.t1 - WindowTicks)
                   => (Returned(ret) /\ ret.allowed)

\* C1 witness: a check is allowed after the oldest timestamp of a full window
\* expired, an earlier check of the same window having been denied.
C1_Witness ==
    /\ Returned(ret) /\ ret.allowed
    /\ full[ret.user].oldest # NoTime
    /\ full[ret.user].denied
    /\ full[ret.user].oldest <= ret.t1 - WindowTicks

\* C3: a denied check returns retry_after_minutes >= 1.
C3_RetryAtLeastOne == Denied(ret) => ret.minutes >= 1

\* C3 witness: a denied check whose oldest timestamp has already expired at the
\* second clock read, so that the unclamped quotient is below 1.
C3_Witness == Denied(ret) /\ RemainingTicks < 0 /\ ret.minutes = 1

\* C4 (as claimed): a denied check returns the remaining seconds rounded up to
\* whole minutes, at least 1.
C4_RetryIsCeiling ==
    Denied(ret) =>
        ret.minutes = Max2(1, CeilDiv(RemainingTicks, SecondsPerMinute * TicksPerSecond))

\* C5 (as claimed): check never raises; with max_requests = 0 it returns
\* allowed = false.
C5_CheckIsTotal ==
    ret.op = "check" =>
        /\ ret.kind = "value"
        /\ max_requests = 0 => ~ret.allowed

\* Number of occurrences of x in s.
Count(s, x) == Cardinality({i \in 1..Len(s) : s[i] = x})

\* C6: a check repeated at the same instant with no record in between returns
\* what the first returned and leaves the window as it is; any check drops
\* only expired timestamps and adds none.
C6_CheckIdempotent ==
    [][\A u \in Users : Check(u) =>
          /\ SameInstantRepeat(u, now, now') =>
                /\ requests'[u] = requests[u]
                /\ ret'.kind = ret.kind
                /\ ret'.allowed = ret.allowed
                /\ ret'.minutes = ret.minutes
          /\ \A ts \in 0..MaxTime :
                /\ Count(requests'[u], ts) <= Count(requests[u], ts)
                /\ ts > now - WindowTicks =>
                      Count(requests'[u], ts) = Count(requests[u], ts)
       ]_vars

\* C6 witness: a denied check that repeats, at the same instant, the previous
\* check of the same user.
C6_Witness == Denied(ret) /\ ret.again /\ Len(log[ret.user]) > Len(requests[ret.user])

----------------------------------------------------------------------------
(* Claims about the file lifecycle manager *)

Sweeping(w) == workers[w].task = "sweep"
Deleting(w) == workers[w].task = "delete"

\* No file that was expired at the scan of w's sweep is still there: each was
\* removed by the sweep, or is gone, or has been written again since.
NoExpiredLeft(w) ==
    \A p \in workers[w].expired :
        \/ p \in workers[w].removed
        \/ fs[p] = NoFile
        \/ fs[p] >= workers[w].cutoff

\* C7 (checked under SpecFiles): a sweep that meets no filesystem error removes
\* the regular files that were strictly older than the retention at its scan
\* and only those, and returns the number of files it removed.
C7_SweepRemovesExpired ==
    \A w \in Workers :
        (Sweeping(w) /\ workers[w].pc = "return" /\ workers[w].error = "ok") =>
            /\ workers[w].removed \subseteq workers[w].expired
            /\ NoExpiredLeft(w)
            /\ workers[w].count = Cardinality(workers[w].removed)

\* C7 witness: a sweep begun at 301 s returns 1, having removed the file
\* written at 0 s and left alone the file written at 300 s.
C7_Witness ==
    \E w \in Workers :
        /\ Sweeping(w) /\ workers[w].pc = "return" /\ workers[w].error = "ok"
        /\ workers[w].cutoff = TicksPerSecond
        /\ workers[w].expired = {"a.oga"} /\ workers[w].removed = {"a.oga"}
        /\ workers[w].count = 1
        /\ fs["a.oga"] = NoFile
        /\ fs["a_compressed.ogg"] = RetentionSeconds * TicksPerSecond

\* C8 (as claimed, checked under SpecFiles): a file of the scan that has
\* disappeared does not stop the sweep, which still removes every other file
\* that was expired at its scan.
C8_VanishedFileIsSuccess ==
    \A w \in Workers :
        (/\ Sweeping(w) /\ workers[w].pc = "return"
         /\ workers[w].error \in {"ok", "FileNotFoundError"}) => NoExpiredLeft(w)

\* C9 (checked under SpecTicker): after n calls of tick the counter is
\* n mod K and floor(n / K) sweeps have been submitted, so 0 <= counter < K.
C9_SweepEveryKthTick ==
    /\ processed_files_count = hist.ticks % cleanup_after
    /\ hist.sweeps = hist.ticks \div cleanup_after
    /\ 0 <= processed_files_count /\ processed_files_count < cleanup_after

\* C9 witness: with K = 3, the sixth call has submitted the second sweep and
\* the counter is back at zero.
C9_Witness ==
    /\ cleanup_after = 3 /\ hist.ticks = 6
    /\ hist.sweeps = 2 /\ processed_files_count = 0

\* A step of the deletion that thread w runs.
DeleteStep(w) == DeleteExists(w) \/ DeleteRemove(w)

\* C10 (checked under SpecFiles): no exception leaves a deletion; a deletion of
\* a path that does not exist finishes and changes nothing; a deletion that
\* finishes without a refusal of the OS leaves its path absent, whether it
\* removed the file or an earlier deletion did; no deletion touches another
\* path or other state.
C10_DeleteMissingIsNoOp ==
    /\ [](~task_exception)
    /\ [][\A w \in Workers : DeleteStep(w) =>
            LET p == workers[w].path
            IN  /\ \A q \in AllPaths \ {p} : fs'[q] = fs[q]
                /\ fs[p] = NoFile => (fs' = fs /\ workers'[w].pc = "return")
                /\ (workers'[w].pc = "return" /\ workers'[w].outcome # "PermissionError")
                      => fs'[p] = NoFile
                /\ UNCHANGED <<rlVars, hVars, queue, processed_files_count, subdir, temp_dir, locked>>
        ]_vars

\* C10 witness: two deletions of the same path have finished; one removed the
\* file, the other found it missing.
C10_Witness ==
    \E w1, w2 \in Workers :
        /\ Deleting(w1) /\ workers[w1].pc = "return" /\ workers[w1].outcome = "ok"
        /\ Deleting(w2) /\ workers[w2].pc = "return"
        /\ workers[w2].outcome \in {"absent", "FileNotFoundError"}
        /\ workers[w1].path = workers[w2].path

----------------------------------------------------------------------------
(* Claims about the handlers, checked under SpecHandlers *)

\* Number of requests of s accepted in the window of W seconds that ends at t.
WindowCount(s, t) ==
    Cardinality({i \in 1..Len(s) : s[i] > t - WindowTicks /\ s[i] <= t})

\* The most requests of u accepted within one trailing window of W seconds.
MostAccepted(u) ==
    LET counts == {WindowCount(log[u], log[u][i]) : i \in 1..Len(log[u])}
    IN  IF counts = {} THEN 0 ELSE CHOOSE c \in counts : \A x \in counts : x <= c

\* C2 (as claimed): under any interleaving of the requests of a user, at most
\* max_requests of them are accepted within any trailing window of W seconds.
C2_AtMostNAccepted == \A u \in Users : MostAccepted(u) <= max_requests

\* C2 (amended): at most max_requests - 1 + P requests of a user are accepted
\* within any trailing window of W seconds, where P is the largest number of
\* that user's requests that were between check and record at the same time;
\* P is 1, and the limit max_requests, when the user's requests do not overlap.
C2_AtMostNPlusOverlap ==
    \A u \in Users : MostAccepted(u) <= max_requests - 1 + peak[u]

\* C2 witness: two voice requests of a user passed check before either
\* recorded, and max_requests + 1 requests were accepted within one window.
C2_Witness ==
    \E u \in Users :
        /\ peak[u] = 2
        /\ MostAccepted(u) = max_requests + 1
        /\ \E p, q \in Procs :
              /\ p # q
              /\ procs[p].kind = "voice" /\ procs[p].user = u
              /\ procs[q].kind = "voice" /\ procs[q].user = u
              /\ procs[p].pc = "translate" /\ procs[q].pc = "translate"

----------------------------------------------------------------------------
(* Further claims about RateLimiter *)

\* C15 (checked under Spec): after the purge of a check, allowed or denied,
\* every timestamp left in the user's window is less than window_seconds old
\* at the purge, so one exactly window_seconds old is gone; and a window empty
\* after the purge is allowed whenever max_requests >= 1.
C15_WindowHoldsLiveOnly ==
    ret.op = "check" =>
        LET u == ret.user
        IN  /\ \A i \in 1..Len(requests[u]) : requests[u][i] > ret.t1 - WindowTicks
            /\ (requests[u] = <<>> /\ max_requests >= 1)
                  => (Returned(ret) /\ ret.allowed)

\* C15 witness: an allowed check has purged a timestamp exactly
\* window_seconds old and kept a younger one.
C15_Witness ==
    /\ Returned(ret) /\ ret.allowed
    /\ \E i \in 1..Len(log[ret.user]) :
          /\ log[ret.user][i] = ret.t1 - WindowTicks
          /\ Count(requests[ret.user], log[ret.user][i]) = 0
    /\ requests[ret.user] # <<>>

\* C13 (checked under SpecHandlers): whatever the interleaving of the requests
\* of a user, the window holds recorded timestamps only, and every recorded
\* timestamp that has not expired is still in it, as often as it was recorded.
C13_NoRecordLost ==
    \A u \in Users :
        \A ts \in 0..now :
            /\ Count(requests[u], ts) <= Count(log[u], ts)
            /\ ts > now - WindowTicks => Count(requests[u], ts) = Count(log[u], ts)

\* C13 witness: a voice request of a user recorded, and the check of a second
\* request of that user then purged the window while the first was still in
\* flight; the recorded timestamp is in the window.
C13_Witness ==
    \E u \in Users, p \in Procs, q \in Procs :
        /\ p # q
        /\ procs[p].kind = "voice" /\ procs[p].user = u /\ procs[p].pc = "translate"
        /\ procs[q].kind = "voice" /\ procs[q].user = u /\ procs[q].pc = "download"
        /\ ret.op = "check" /\ ret.user = u
        /\ requests[u] # <<>> /\ requests[u] = log[u]

----------------------------------------------------------------------------
(* Further claims about the handlers, checked under SpecHandlers *)

\* A step in which the handler of slot p starts a request of user u.
Starts(p, u) == TextCheck(p, u) \/ \E id \in FileIds : VoiceCheck(p, u, id)

\* Requests that have called record once.
Recorded(u) == {p \in Procs : procs[p].user = u /\ procs[p].recorded = 1}

\* C16: a request that check denies, a /t without text and a voice message
\* that is too long or fails to download never call record, and leave the
\* window as the purge left it; a request that passed its validations has
\* called record exactly once by the time the provider is called, and stays
\* counted when the provider fails.
C16_QuotaForValidatedOnly ==
    /\ [](\A p \in Procs :
            /\ procs[p].validation = "passed" <=> procs[p].recorded = 1
            /\ procs[p].validation # "passed" => procs[p].recorded = 0
            /\ procs[p].pc = "translate" => procs[p].recorded = 1)
    /\ [](\A u \in Users : Len(log[u]) = Cardinality(Recorded(u)))
    /\ [][\A p \in Procs, u \in Users :
            LET kept == CleanupOldRequests(requests[u], now)
            IN  /\ (Starts(p, u) /\ (LimitReached(kept)
                                      \/ procs'[p].validation = "empty")) =>
                      /\ procs'[p].recorded = 0
                      /\ log' = log
                      /\ requests' = [requests EXCEPT ![u] = kept]
                /\ ((VoiceDownload(p) \/ VoiceValidate(p))
                       /\ procs'[p].validation \in {"too_long", "failed"}) =>
                      /\ log' = log
                      /\ requests' = requests
       ]_vars

\* C16 witness: the provider call of a voice request failed after the request
\* was recorded, while a voice message of the same user that was too long
\* recorded nothing.
C16_Witness ==
    \E p, q \in Procs :
        /\ procs[p].kind = "voice" /\ procs[p].pc = "except"
        /\ procs[p].validation = "passed" /\ procs[p].recorded = 1
        /\ procs[q].kind = "voice" /\ procs[q].validation = "too_long"
        /\ procs[q].user = procs[p].user
        /\ Len(log[procs[p].user]) = 1

\* Requests that got past the rate limiter.
PastAdmission(p) == procs[p].validation \in {"empty", "passed", "too_long", "failed"}

\* Calls of cleanup_temp_files so far.
Ticks == Cardinality({p \in Procs : procs[p].ticked >= 1})

SweepsQueued == Cardinality({i \in 1..Len(queue) : queue[i].op = "sweep"})

\* C14: however the requests that call tick overlap, n calls have submitted
\* floor(n / K) sweeps and left the counter at n mod K, below K.
C14_TickAtomic ==
    /\ SweepsQueued = Ticks \div cleanup_after
    /\ processed_files_count = Ticks % cleanup_after
    /\ processed_files_count < cleanup_after

\* C14 witness: two voice requests of one user were in flight together and
\* both have called tick; with K = 2 there is one sweep and the counter is 0.
C14_Witness ==
    /\ \E u \in Users : peak[u] = 2
    /\ \A p \in Procs : procs[p].kind = "voice" /\ procs[p].pc = "done"
                        /\ procs[p].ticked = 1
    /\ cleanup_after = 2 /\ SweepsQueued = 1 /\ processed_files_count = 0

----------------------------------------------------------------------------
(* Claims about the pool, checked under SpecPoolFair *)

\* The work items the file manager submits.
Items == {[op |-> "sweep"]} \cup {[op |-> "delete", path |-> p] : p \in Paths}

Queued(item) == \E i \in 1..Len(queue) : queue[i] = item

\* Thread w has taken the work item and is about to run its first statement.
Started(w, item) ==
    /\ workers[w].task = item.op
    /\ IF item.op = "delete"
       THEN workers[w].pc = "exists" /\ workers[w].path = item.path
       ELSE workers[w].pc = "begin"

\* A call of delete_file, delete_files or tick.
Call == Tick \/ (\E p \in Paths : DeleteFile(p)) \/ (\E paths \in DeleteArgs : DeleteFiles(paths))

\* C12: a call of delete or tick only appends to the queue of the pool, and
\* neither runs nor waits for a removal or a sweep; under fair scheduling of
\* the threads every queued deletion and sweep is taken by a thread, and every
\* work item a thread runs comes to its end.
C12_NonBlockingAndExecuted ==
    /\ [][Call => /\ workers' = workers /\ fs' = fs
                  /\ Len(queue') >= Len(queue)
                  /\ SubSeq(queue', 1, Len(queue)) = queue]_vars
    /\ \A item \in Items : Queued(item) ~> (\E w \in Workers : Started(w, item))
    /\ \A w \in Workers : (workers[w] # Idle) ~> (workers[w] = Idle)

\* C12 witness: tick and delete_file have returned; the sweep and the deletion
\* wait in the queue, no thread has started, and the file is still there.
C12_Witness ==
    /\ \A w \in Workers : workers[w] = Idle
    /\ Len(queue) = 2
    /\ queue[1].op = "sweep" /\ queue[2].op = "delete"
    /\ fs[queue[2].path] # NoFile

----------------------------------------------------------------------------
(* Claims about the files of the requests, checked under SpecRequests *)

\* The handler of slot p is between the paths it derived and its return.
InFlightRequest(p) ==
    /\ procs[p].kind = "voice"
    /\ procs[p].pc \in {"download", "downloaded", "too_long", "translate", "except"}

\* C19 (as claimed): two voice requests that are in flight together never
\* work on the same path, whatever file ids their messages carry.
C19_PathsNotShared ==
    \A p, q \in Procs :
        (p # q /\ InFlightRequest(p) /\ InFlightRequest(q))
            => procs[p].oga_path # procs[q].oga_path

\* C20 (as claimed): from the end of its download until translate_audio has
\* read it, the file of a request is not removed by a sweep or by a deletion
\* that another request scheduled.
C20_NoRemovalWhileInUse ==
    \A p \in Procs :
        (procs[p].kind = "voice" /\ procs[p].pc = "downloaded")
            => fs[procs[p].oga_path] # NoFile

----------------------------------------------------------------------------
(* Claims about the cleanup of a request, checked under SpecCleanupFair *)

\* The paths the handler of slot p holds: its download and, once
\* compress_audio has returned, the compressed file (or the download again).
PathsOf(p) == {procs[p].oga_path, procs[p].compressed_path} \ {None}

\* Items i of the queue after the step that were not in the queue before it.
Submitted(item) ==
    \E i \in (Len(queue) + 1)..Len(queue') : queue'[i] = item

----------------------------------------------------------------------------
(* Claims about errors of the cleanup, checked under SpecFaults *)

\* The error the work item of thread w has met, if any.
ErrorMet(w) ==
    \/ Deleting(w) /\ workers[w].outcome \in {"FileNotFoundError", "PermissionError", "IsADirectoryError"}
    \/ Sweeping(w) /\ workers[w].error # "ok"

\* C11: an error of the filesystem met by a background deletion or by a sweep
\* never leaves the work item: the item returns, no step of a pool thread
\* changes a request, the rate limiter or the counter, and a request that has
\* finished keeps the outcome it had before its cleanup ran.
C11_CleanupErrorsContained ==
    /\ [](~task_exception)
    /\ [](\A w \in Workers : ErrorMet(w) => workers[w].pc = "return")
    /\ [][\A w \in Workers : workers'[w] # workers[w] =>
            UNCHANGED <<rlVars, hVars, processed_files_count>>]_vars
    /\ [][\A p \in Procs : procs[p].pc = "done" => procs'[p] = procs[p]]_vars

\* C11 witness: a request has finished with the too-long reply; the deletion
\* of its download and the sweep it triggered were both refused by the OS.
C11_Witness ==
    \E p \in Procs : \E w1, w2 \in Workers :
        /\ procs[p].pc = "done" /\ procs[p].validation = "too_long"
        /\ Deleting(w1) /\ workers[w1].pc = "return"
        /\ workers[w1].outcome = "PermissionError"
        /\ workers[w1].path = procs[p].oga_path
        /\ Sweeping(w2) /\ workers[w2].pc = "return"
        /\ workers[w2].error = "PermissionError"

----------------------------------------------------------------------------
(* Claims about the users of RateLimiter, checked under Spec *)

\* C23: a call of check or record for a user changes the window of no other
\* user, and what check answers for a user is decided by that user's own
\* recorded timestamps and the time of the call: it allows exactly when fewer
\* than max_requests of them are less than window_seconds old.
C23_WindowsIsolated ==
    /\ [][\A v \in Users : requests'[v] # requests[v] =>
              (ret'.op \in {"check", "record"} /\ ret'.user = v)]_vars
    /\ [](ret.op = "check" =>
              ((Returned(ret) /\ ret.allowed)
                  <=> Live(log[ret.user], ret.t1) < max_requests))

\* C23 witness: a check of one user is allowed while the window of the other
\* user is full of timestamps less than window_seconds old.
C23_Witness ==
    /\ Returned(ret) /\ ret.op = "check" /\ ret.allowed
    /\ \E v \in Users \ {ret.user} :
          /\ max_requests >= 1
          /\ Len(requests[v]) >= max_requests
          /\ Live(requests[v], ret.t1) >= max_requests

----------------------------------------------------------------------------
(* Claims about the working directory, checked under SpecWorkspace *)

\* The request of slot p has met a failing ensure_temp_dir.
WorkspaceFailed(p) == procs[p].kind = "voice" /\ procs[p].workspace = "failed"

\* The step admits the voice request of slot p: check has allowed it.
AdmitsVoice(p) ==
    /\ procs[p].pc = "idle" /\ procs'[p].kind = "voice"
    /\ procs'[p].validation = "pending"

\* C22 (as claimed): a request that has met a failure to create the working
\* directory, in the handler or in compress_audio, has recorded nothing,
\* downloaded nothing and ticked nothing.
C22_NothingHappensAfterFailure ==
    \A p \in Procs : WorkspaceFailed(p) =>
        /\ procs[p].recorded = 0 /\ procs[p].ticked = 0
        /\ procs[p].oga_path = None

\* C22 (amended): the ensure_temp_dir of handle_voice raises out of the
\* handler when the directory cannot be created, with no record, no download
\* and no tick for the request; when the directory exists the call changes
\* nothing, and when it is merely absent the call creates it. A failure of
\* the ensure_temp_dir inside compress_audio leaves compress_audio, but it
\* comes after the record and the download of the request and is caught by
\* the except clause of the handler, whose finally clause still ticks.
C22_FailureSurfaces ==
    /\ [][\A p \in Procs : AdmitsVoice(p) =>
            IF temp_dir = "blocked"
            THEN /\ procs'[p].pc = "done" /\ procs'[p].workspace = "failed"
                 /\ procs'[p].oga_path = None
                 /\ procs'[p].recorded = 0 /\ procs'[p].ticked = 0
                 /\ UNCHANGED <<log, fsVars>>
            ELSE /\ procs'[p].pc = "download" /\ procs'[p].workspace = "ok"
                 /\ temp_dir' = "present"
                 /\ UNCHANGED <<log, fs, subdir, locked, queue, workers,
                                processed_files_count, cleanup_after,
                                task_exception, hist>>
        ]_vars
    /\ [](\A p \in Procs : (WorkspaceFailed(p) /\ procs[p].oga_path = None) =>
              /\ procs[p].pc = "done"
              /\ procs[p].recorded = 0 /\ procs[p].ticked = 0)
    /\ [][\A p \in Procs :
            (procs[p].pc = "downloaded" /\ procs'[p].pc # "downloaded"
                /\ temp_dir = "blocked") =>
                /\ procs'[p].pc = "except" /\ procs'[p].workspace = "failed"
                /\ procs'[p].compressed_path = None
                /\ procs'[p].recorded = 1
        ]_vars
    /\ [](\A p \in Procs :
            (WorkspaceFailed(p) /\ procs[p].oga_path # None) =>
                /\ procs[p].recorded = 1
                /\ procs[p].pc \in {"except", "done"}
                /\ procs[p].ticked = (IF procs[p].pc = "done" THEN 1 ELSE 0))

\* C22 witness: one request was ended by the ensure_temp_dir of the handler,
\* another by the one of compress_audio, and only the latter has ticked.
C22_Witness ==
    \E p, q \in Procs :
        /\ WorkspaceFailed(p) /\ procs[p].oga_path = None /\ procs[p].pc = "done"
        /\ WorkspaceFailed(q) /\ procs[q].oga_path # None /\ procs[q].pc = "done"
        /\ procs[q].ticked = 1 /\ processed_files_count = 1

----------------------------------------------------------------------------
(* Claims about removals the OS refuses, checked under SpecRetryFair *)

\* C21 (as claimed): a deletion the OS refused is not tried again by the
\* thread that ran it and submits nothing; and, ticks never ceasing, no
\* expired file stays in the directory for ever unless it is its own removal
\* that the OS keeps refusing.
C21_ExpiredEventuallySwept ==
    /\ [][\A w \in Workers :
            (Deleting(w) /\ workers[w].pc = "return"
                /\ workers[w].outcome = "PermissionError") =>
                /\ workers'[w] \in {workers[w], Idle}
                /\ workers'[w] = Idle => UNCHANGED <<fs, queue>>
        ]_vars
    /\ \A p \in Paths : []<>(fs[p] = NoFile \/ p \in locked)

====
